---- MODULE Spec2Model ----
(***************************************************************************)
(* Open Source Sharing Platform API (src/main.py, src/schemas.py).         *)
(*                                                                         *)
(* A FastAPI gateway over a MongoDB document store: three collections      *)
(* ("dataset", "tool", "snippet"), each with a list endpoint that builds a *)
(* store filter from optional query parameters and a create endpoint that  *)
(* inserts a schema-validated payload, plus the diagnostic route /test.    *)
(*                                                                         *)
(* Values are tagged records [t, v]: t names the Python type, v is always  *)
(* a sequence (the characters of a str, the bytes of an ObjectId, the      *)
(* elements of a list, the one number of an int).  A str is a sequence of  *)
(* symbols; a URL scheme prefix is one symbol.  A dict is a function from  *)
(* its keys.                                                               *)
(***************************************************************************)
EXTENDS Integers, Sequences, FiniteSets, TLC

VARIABLES
    db,      \* the store handle: "none" (never initialised), "up", "down"
    store,   \* collection name -> sequence of stored documents
    nextOid, \* the store's identifier counter
    req,     \* the request being answered
    resp,    \* the HTTP response to req
    issued   \* what 201 responses told the client: {[kind, id, doc]}

vars == <<db, store, nextOid, req, resp, issued>>

\* ------------------------------------------------------------------ bounds

\* Documents held by the store, all collections together.
MaxDocs == 2
\* Datasets inserted under SpecLimit (more than the default limit).
MaxBulk == 60
\* Length of the store's error messages (longer than the diagnostic cut).
ErrLen == 52

\* ------------------------------------------------------------------ values

Null == [t |-> "null", v |-> <<>>]
Str(s) == [t |-> "str", v |-> s]
IntV(n) == [t |-> "int", v |-> <<n>>]
List(l) == [t |-> "list", v |-> l]
ObjectId(bytes) == [t |-> "oid", v |-> bytes]

EmptyDict == [k \in {} |-> Null]
Put(d, k, val) == [x \in (DOMAIN d) \cup {k} |-> IF x = k THEN val ELSE d[x]]

Min(a, b) == IF a <= b THEN a ELSE b
Max(a, b) == IF a >= b THEN a ELSE b

\* Python's seq[:n] for n >= 0.
Take(s, n) == SubSeq(s, 1, Min(Max(n, 0), Len(s)))

\* Python truthiness of an optional str parameter: None and "" are falsy.
Truthy(p) == p.t = "str" /\ p.v # <<>>

\* str.lower() on the alphabet of the model.
Lower(c) ==
    CASE c = "A" -> "a"
      [] c = "B" -> "b"
      [] c = "C" -> "c"
      [] c = "X" -> "x"
      [] c = "Y" -> "y"
      [] OTHER -> c

\* ------------------------------------------------------------------ ObjectId

HexDigits == <<"0", "1", "2", "3", "4", "5", "6", "7",
               "8", "9", "a", "b", "c", "d", "e", "f">>

\* The n-th identifier the store assigns: 12 bytes, the counter in the last.
NewObjectId(n) == ObjectId([i \in 1..12 |-> IF i = 12 THEN n % 256 ELSE 0])

\* str(ObjectId): the 24 lower-case hex digits of its 12 bytes.
ObjectIdStr(o) ==
    [i \in 1..(2 * Len(o.v)) |->
        LET b == o.v[(i + 1) \div 2]
        IN  IF i % 2 = 1 THEN HexDigits[(b \div 16) + 1] ELSE HexDigits[(b % 16) + 1]]

\* ------------------------------------------------------------------ $regex

\* {"$regex": pat, "$options": "i"} at position pos (0-based) of txt.  The
\* pattern language is the part of PCRE the model's alphabet can spell:
\* literal characters, compared without case, and the anchor "^", which
\* consumes nothing and holds only at the start of the subject.
RegexFold(c, options) == IF options = "i" THEN Lower(c) ELSE c

RECURSIVE RegexMatchAt(_, _, _, _)
RegexMatchAt(pat, options, txt, pos) ==
    IF pat = <<>> THEN TRUE
    ELSE IF Head(pat) = "^"
         THEN pos = 0 /\ RegexMatchAt(Tail(pat), options, txt, pos)
         ELSE /\ pos < Len(txt)
              /\ RegexFold(txt[pos + 1], options) = RegexFold(Head(pat), options)
              /\ RegexMatchAt(Tail(pat), options, txt, pos + 1)

\* An unanchored search: the pattern may match at any position.  Every
\* sequence over the alphabet is a well-formed pattern, so no query of the
\* model is rejected as malformed.
RegexSearch(pat, options, txt) ==
    \E pos \in 0..Len(txt) : RegexMatchAt(pat, options, txt, pos)

\* ------------------------------------------------------------------ schemas

\* A field of a pydantic model: its type, whether it is required (Field(...))
\* and the default a missing optional field takes.
Required(type) == [type |-> type, required |-> TRUE, default |-> Null]
Optional(type) == [type |-> type, required |-> FALSE, default |-> Null]
TagsField == [type |-> "list", required |-> FALSE, default |-> List(<<>>)]

Dataset ==
    [name |-> Required("str"), description |-> Required("str"),
     url |-> Required("url"), repo_url |-> Optional("url"),
     license |-> Optional("str"), maintainer |-> Optional("str"),
     size_mb |-> Optional("float_ge0"), tags |-> TagsField]

Tool ==
    [name |-> Required("str"), description |-> Required("str"),
     repo_url |-> Required("url"), homepage_url |-> Optional("url"),
     license |-> Optional("str"), tags |-> TagsField]

Snippet ==
    [title |-> Required("str"), description |-> Required("str"),
     language |-> Required("str"), code |-> Required("str"),
     repo_url |-> Optional("url"), tags |-> TagsField]

Kinds == {"dataset", "tool", "snippet"}

Schema(kind) ==
    CASE kind = "dataset" -> Dataset
      [] kind = "tool" -> Tool
      [] kind = "snippet" -> Snippet

\* HttpUrl: a str that starts with an http or https scheme and names a host.
IsHttpUrl(s) == Len(s) >= 2 /\ s[1] \in {"http://", "https://"}

\* One field's value against its declared type.  None is accepted only by a
\* field declared Optional[...]; the tags list is not Optional.
FieldOk(fld, val) ==
    IF val.t = "null" THEN ~fld.required /\ fld.type # "list"
    ELSE CASE fld.type = "str" -> val.t = "str"
           [] fld.type = "url" -> val.t = "str" /\ IsHttpUrl(val.v)
           [] fld.type = "float_ge0" -> val.t = "int" /\ val.v[1] >= 0
           [] fld.type = "list" -> val.t = "list"

\* The fields Field(...) requires that the payload does not carry.
MissingRequired(model, payload) ==
    {f \in DOMAIN model : model[f].required /\ f \notin DOMAIN payload}

\* Validates with every field taken as optional.
Validates_NothingRequired(model, payload) ==
    \A f \in (DOMAIN model) \cap (DOMAIN payload) : FieldOk(model[f], payload[f])

\* pydantic's validation of an inbound payload against a model.
Validates(model, payload) ==
    /\ MissingRequired(model, payload) = {}
    /\ \A f \in (DOMAIN model) \cap (DOMAIN payload) : FieldOk(model[f], payload[f])

\* The validated model as a dict: every declared field, defaults filled in.
ModelDump(model, payload) ==
    [f \in DOMAIN model |-> IF f \in DOMAIN payload THEN payload[f] ELSE model[f].default]

\* ------------------------------------------------------------------ store adapter

\* The store's error messages, ErrLen characters each.
ErrorText(first) == [i \in 1..ErrLen |-> IF i = 1 THEN first ELSE IF i % 2 = 0 THEN "e" ELSE "r"]
StoreUnavailable == ErrorText("U")
WriteError == ErrorText("W")

\* A filter's equality condition on a field: an array field matches when one
\* of its elements equals the value, any other field when it equals it.
FieldEquals(doc, k, val) ==
    /\ k \in DOMAIN doc
    /\ IF doc[k].t = "list"
       THEN \E i \in 1..Len(doc[k].v) : doc[k].v[i] = val.v
       ELSE doc[k].t = val.t /\ doc[k].v = val.v

\* One {field: {"$regex": .., "$options": ..}} clause of an $or group.
ClauseMatches(doc, c) ==
    /\ c.field \in DOMAIN doc
    /\ doc[c.field].t = "str"
    /\ RegexSearch(c.regex, c.options, doc[c.field].v)

\* A document against a filter: every key of the filter must hold.
Matches(doc, filt) ==
    \A k \in DOMAIN filt :
        IF k = "$or"
        THEN \E i \in 1..Len(filt[k]) : ClauseMatches(doc, filt[k][i])
        ELSE FieldEquals(doc, k, filt[k])

RECURSIVE Select(_, _)
Select(docs, filt) ==
    IF docs = <<>> THEN <<>>
    ELSE (IF Matches(Head(docs), filt) THEN <<Head(docs)>> ELSE <<>>)
         \o Select(Tail(docs), filt)

\* list(collectionName, filter, limit): up to limit matching records in store
\* order, or StoreUnavailable when there is no connection.
get_documents(collection_name, filt, limit) ==
    IF db # "up"
    THEN [ok |-> FALSE, err |-> StoreUnavailable, docs |-> <<>>]
    ELSE [ok |-> TRUE, err |-> <<>>,
          docs |-> Take(Select(store[collection_name], filt), limit)]

\* insert(collectionName, record): persists the record under a new identifier
\* and returns the identifier's string form, or fails and persists nothing.
create_document(collection_name, data, wfault) ==
    IF db # "up"
    THEN [ok |-> FALSE, err |-> StoreUnavailable, id |-> <<>>, store |-> store]
    ELSE IF wfault
    THEN [ok |-> FALSE, err |-> WriteError, id |-> <<>>, store |-> store]
    ELSE LET oid == NewObjectId(nextOid)
         IN  [ok |-> TRUE, err |-> <<>>, id |-> ObjectIdStr(oid),
              store |-> [store EXCEPT ![collection_name] =
                            Append(@, Put(data, "_id", oid))]]

\* ------------------------------------------------------------------ main.py

\* The default of the list endpoints' limit parameter.
DefaultLimit == 50
\* The diagnostic route's cut of an error's text.
DiagCut == 50

\* LimitParam with the supplied limit dropped.
LimitParam_Ignored(limit) == DefaultLimit

\* limit: int = 50
LimitParam(limit) == IF limit.t = "null" THEN DefaultLimit ELSE limit.v[1]

\* serialize_doc returning the record as stored.
serialize_doc_Raw(doc) == doc

\* serialize_doc skipping the values that are None.
serialize_doc_SkipsNone(doc) ==
    [k \in {x \in DOMAIN doc : doc[x].t # "null"} |->
        IF doc[k].t = "oid" THEN Str(ObjectIdStr(doc[k])) ELSE doc[k]]

serialize_doc(doc) ==
    [k \in DOMAIN doc |-> IF doc[k].t = "oid" THEN Str(ObjectIdStr(doc[k])) ELSE doc[k]]

RegexClause(fld, q) == [field |-> fld, regex |-> q.v, options |-> "i"]

\* list_datasets_filt searching the name alone.
list_datasets_filt_NameOnly(tag, q) ==
    LET f1 == IF Truthy(tag) THEN Put(EmptyDict, "tags", tag) ELSE EmptyDict
    IN  IF Truthy(q) THEN Put(f1, "$or", <<RegexClause("name", q)>>) ELSE f1

list_datasets_filt(tag, q) ==
    LET f1 == IF Truthy(tag) THEN Put(EmptyDict, "tags", tag) ELSE EmptyDict
    IN  IF Truthy(q)
        THEN Put(f1, "$or", <<RegexClause("name", q), RegexClause("description", q)>>)
        ELSE f1

\* list_tools_filt without the tag condition.
list_tools_filt_NoTag(tag, q) ==
    IF Truthy(q)
    THEN Put(EmptyDict, "$or", <<RegexClause("name", q), RegexClause("description", q)>>)
    ELSE EmptyDict

list_tools_filt(tag, q) ==
    LET f1 == IF Truthy(tag) THEN Put(EmptyDict, "tags", tag) ELSE EmptyDict
    IN  IF Truthy(q)
        THEN Put(f1, "$or", <<RegexClause("name", q), RegexClause("description", q)>>)
        ELSE f1

\* list_snippets_filt without the language condition.
list_snippets_filt_NoLanguage(tag, q, language) ==
    LET f1 == IF Truthy(tag) THEN Put(EmptyDict, "tags", tag) ELSE EmptyDict
    IN  IF Truthy(q)
        THEN Put(f1, "$or", <<RegexClause("title", q), RegexClause("description", q),
                              RegexClause("code", q)>>)
        ELSE f1

list_snippets_filt(tag, q, language) ==
    LET f1 == IF Truthy(tag) THEN Put(EmptyDict, "tags", tag) ELSE EmptyDict
        f2 == IF Truthy(language) THEN Put(f1, "language", language) ELSE f1
    IN  IF Truthy(q)
        THEN Put(f2, "$or", <<RegexClause("title", q), RegexClause("description", q),
                              RegexClause("code", q)>>)
        ELSE f2

\* The filter the list endpoint of a kind builds (language: snippets only).
FilterOf(kind, tag, q, language) ==
    CASE kind = "dataset" -> list_datasets_filt(tag, q)
      [] kind = "tool" -> list_tools_filt(tag, q)
      [] kind = "snippet" -> list_snippets_filt(tag, q, language)

\* ------------------------------------------------------------------ requests and responses

NoReq ==
    [route |-> "none", kind |-> "", tag |-> Null, q |-> Null, language |-> Null,
     limit |-> Null, payload |-> EmptyDict, wfault |-> FALSE]

NoDatabase == [status |-> "", text |-> <<>>]

NoResp ==
    [status |-> 0, id |-> <<>>, docs |-> <<>>, detail |-> <<>>,
     database |-> NoDatabase, connection_status |-> "", collections |-> <<>>]

ListReq(kind, tag, q, language, limit) ==
    [NoReq EXCEPT !.route = "list", !.kind = kind, !.tag = tag, !.q = q,
                  !.language = language, !.limit = limit]

CreateReq(kind, payload, wfault) ==
    [NoReq EXCEPT !.route = "create", !.kind = kind, !.payload = payload,
                  !.wfault = wfault]

\* A list endpoint's answer: the serialized documents, or the framework's
\* 500 for the exception the handler does not catch.
ListResp(r) ==
    IF r.ok
    THEN [NoResp EXCEPT !.status = 200,
                        !.docs = [i \in 1..Len(r.docs) |-> serialize_doc(r.docs[i])]]
    ELSE [NoResp EXCEPT !.status = 500]

list_datasets(tag, q, limit) ==
    /\ req' = ListReq("dataset", tag, q, Null, limit)
    /\ resp' = ListResp(get_documents("dataset", list_datasets_filt(tag, q),
                                      LimitParam(limit)))
    /\ UNCHANGED <<db, store, nextOid, issued>>

list_tools(tag, q, limit) ==
    /\ req' = ListReq("tool", tag, q, Null, limit)
    /\ resp' = ListResp(get_documents("tool", list_tools_filt(tag, q),
                                      LimitParam(limit)))
    /\ UNCHANGED <<db, store, nextOid, issued>>

list_snippets(tag, q, language, limit) ==
    /\ req' = ListReq("snippet", tag, q, language, limit)
    /\ resp' = ListResp(get_documents("snippet", list_snippets_filt(tag, q, language),
                                      LimitParam(limit)))
    /\ UNCHANGED <<db, store, nextOid, issued>>

\* A create endpoint: the framework answers 422 to a body the model rejects
\* and never calls the handler; the handler answers 201 {id} or, for any
\* exception of the insert, an HTTPException of except_status with the
\* exception's text as detail.
CreateStep(kind, model, collection_name, except_status, payload, wfault) ==
    LET r == create_document(collection_name, ModelDump(model, payload), wfault)
    IN  /\ req' = CreateReq(kind, payload, wfault)
        /\ IF ~Validates(model, payload)
           THEN /\ resp' = [NoResp EXCEPT !.status = 422]
                /\ UNCHANGED <<store, nextOid, issued>>
           ELSE IF r.ok
           THEN /\ resp' = [NoResp EXCEPT !.status = 201, !.id = r.id]
                /\ store' = r.store
                /\ nextOid' = nextOid + 1
                /\ issued' = issued \cup
                      {[kind |-> kind, id |-> r.id, doc |-> ModelDump(model, payload)]}
           ELSE /\ resp' = [NoResp EXCEPT !.status = except_status, !.detail = r.err]
                /\ store' = r.store
                /\ UNCHANGED <<nextOid, issued>>
        /\ UNCHANGED db

create_dataset(payload, wfault) ==
    CreateStep("dataset", Dataset, "dataset", 400, payload, wfault)

\* create_tool without its except clause: the framework answers 500.
create_tool_Uncaught(payload, wfault) ==
    CreateStep("tool", Tool, "tool", 500, payload, wfault)

create_tool(payload, wfault) ==
    CreateStep("tool", Tool, "tool", 400, payload, wfault)

\* create_snippet inserting into the tools' collection.
create_snippet_WrongCollection(payload, wfault) ==
    CreateStep("snippet", Snippet, "tool", 400, payload, wfault)

create_snippet(payload, wfault) ==
    CreateStep("snippet", Snippet, "snippet", 400, payload, wfault)

\* DiagError without the cut.
DiagError_Whole(e) == e

\* str(e)[:50]
DiagError(e) == Take(e, DiagCut)

\* db.list_collection_names(): the collections that hold a document.
CollectionNames == SelectSeq(<<"dataset", "snippet", "tool">>, LAMBDA c : store[c] # <<>>)

\* GET /test.  db is the handle imported at start-up; with a handle, the only
\* call that can raise is db.list_collection_names(), caught by the inner
\* except, so the outer except has no path to it.  The database_url and
\* database_name fields report the environment and are left out.
test_database ==
    /\ req' = [NoReq EXCEPT !.route = "test"]
    /\ resp' =
          IF db = "none"
          THEN [NoResp EXCEPT !.status = 200,
                   !.database = [status |-> "Available but not initialized", text |-> <<>>],
                   !.connection_status = "Not Connected"]
          ELSE IF db = "up"
          THEN [NoResp EXCEPT !.status = 200,
                   !.database = [status |-> "Connected & Working", text |-> <<>>],
                   !.connection_status = "Connected",
                   !.collections = Take(CollectionNames, 10)]
          ELSE [NoResp EXCEPT !.status = 200,
                   !.database = [status |-> "Connected but Error",
                                 text |-> DiagError(StoreUnavailable)],
                   !.connection_status = "Connected"]
    /\ UNCHANGED <<db, store, nextOid, issued>>

\* ------------------------------------------------------------------ environment

\* The connection to the store is lost, or comes back.
StoreDown == db = "up" /\ db' = "down" /\ UNCHANGED <<store, nextOid, req, resp, issued>>
StoreUp == db = "down" /\ db' = "up" /\ UNCHANGED <<store, nextOid, req, resp, issued>>

\* ------------------------------------------------------------------ inputs

HttpsUrl == Str(<<"https://", "h">>)

DatasetPayloads ==
    { [name |-> Str(<<"A", "b">>), description |-> Str(<<"c">>), url |-> HttpsUrl,
       tags |-> List(<< <<"X">>, <<"y">> >>)],
      [name |-> Str(<<"c">>), description |-> Str(<<"b", "^", "a">>), url |-> HttpsUrl,
       tags |-> List(<< <<"x">> >>)],
      [name |-> Str(<<"c">>), description |-> Str(<<"c">>)],
      [name |-> Str(<<"c">>), description |-> Str(<<"c">>), url |-> Str(<<"h">>)],
      [name |-> Str(<<"c">>), description |-> Str(<<"c">>), url |-> HttpsUrl,
       size_mb |-> IntV(-1)] }

ToolPayloads ==
    { [name |-> Str(<<"b", "^", "a">>), description |-> Str(<<"c">>), repo_url |-> HttpsUrl],
      [description |-> Str(<<"c">>), repo_url |-> HttpsUrl] }

SnippetPayloads ==
    { [title |-> Str(<<"c">>), description |-> Str(<<"c">>), language |-> Str(<<"p", "y">>),
       code |-> Str(<<"A", "b">>), tags |-> List(<< <<"x">> >>)],
      [title |-> Str(<<"^", "a">>), description |-> Str(<<"c">>), language |-> Str(<<"j", "s">>),
       code |-> Str(<<"c">>)],
      [title |-> Str(<<"c">>), description |-> Str(<<"c">>), code |-> Str(<<"c">>)] }

TagParams == {Null, Str(<<"x">>)}
QParams == {Null, Str(<<"a">>), Str(<<"^", "a">>)}
LanguageParams == {Null, Str(<<"p", "y">>)}
LimitParams == {Null, IntV(1)}
\* The limits tried against the bulk of datasets under SpecLimit.
BulkLimits == {Null, IntV(1), IntV(55), IntV(-1)}

\* ------------------------------------------------------------------ specification

TotalDocs == Len(store["dataset"]) + Len(store["tool"]) + Len(store["snippet"])

Init ==
    /\ db \in {"none", "up"}
    /\ store = [k \in Kinds |-> <<>>]
    /\ nextOid = 1
    /\ req = NoReq
    /\ resp = NoResp
    /\ issued = {}

Next ==
    \/ \E tag \in TagParams, q \in QParams, limit \in LimitParams :
          list_datasets(tag, q, limit)
    \/ \E tag \in TagParams, q \in QParams, limit \in LimitParams :
          list_tools(tag, q, limit)
    \/ \E tag \in TagParams, q \in QParams, language \in LanguageParams,
          limit \in LimitParams :
          list_snippets(tag, q, language, limit)
    \/ \E payload \in DatasetPayloads, wfault \in BOOLEAN :
          TotalDocs < MaxDocs /\ create_dataset(payload, wfault)
    \/ \E payload \in ToolPayloads, wfault \in BOOLEAN :
          TotalDocs < MaxDocs /\ create_tool(payload, wfault)
    \/ \E payload \in SnippetPayloads, wfault \in BOOLEAN :
          TotalDocs < MaxDocs /\ create_snippet(payload, wfault)
    \/ test_database
    \/ StoreDown
    \/ StoreUp

Spec == Init /\ [][Next]_vars

\* More datasets than the default limit: one payload, inserted MaxBulk times,
\* and the dataset list endpoint.
BulkPayload ==
    [name |-> Str(<<"A", "b">>), description |-> Str(<<"c">>), url |-> HttpsUrl]

NextLimit ==
    \/ /\ Len(store["dataset"]) < MaxBulk
       /\ create_dataset(BulkPayload, FALSE)
    \/ \E tag \in TagParams, q \in QParams, limit \in BulkLimits :
          list_datasets(tag, q, limit)

SpecLimit == Init /\ [][NextLimit]_vars

\* ------------------------------------------------------------------ vocabulary of the properties

Supplied(p) == p.t # "null"

Elements(seq) == {seq[i] : i \in 1..Len(seq)}

\* q occurs in s as a contiguous run of characters, letter case ignored.
CISubstring(q, s) ==
    \E off \in 0..(Len(s) - Len(q)) :
        \A j \in 1..Len(q) : Lower(s[off + j]) = Lower(q[j])

\* No character of s is a pattern metacharacter.
Literal(s) == \A i \in 1..Len(s) : s[i] # "^"

\* The text fields a kind's q searches.
TextFields(kind) ==
    IF kind = "snippet" THEN {"title", "description", "code"}
    ELSE {"name", "description"}

HexValue(c) == CHOOSE n \in 0..15 : HexDigits[n + 1] = c

\* The bytes a string of hex digits spells.
HexDecode(s) ==
    [i \in 1..(Len(s) \div 2) |-> HexValue(s[2 * i - 1]) * 16 + HexValue(s[2 * i])]

\* r is the record of the 201 response e, as a list endpoint returns it.
IsIssued(r, e) ==
    /\ "_id" \in DOMAIN r
    /\ r["_id"].t = "str"
    /\ r["_id"].v = e.id
    /\ DOMAIN r = (DOMAIN e.doc) \cup {"_id"}
    /\ \A f \in DOMAIN e.doc : r[f] = e.doc[f]

\* A step that answers a request (the handle to the store does not change).
Answered == db' = db

\* ------------------------------------------------------------------ C1

MissingField(r) ==
    r.route = "create" /\ MissingRequired(Schema(r.kind), r.payload) # {}

C2_Created ==
    (/\ Answered
     /\ req'.route = "create"
     /\ Validates(Schema(req'.kind), req'.payload)
     /\ db = "up"
     /\ ~req'.wfault)
    => resp'.status = 201

\* A successful list request that supplies q and nothing else.
OnlyQ ==
    /\ req.route = "list"
    /\ resp.status = 200
    /\ Supplied(req.q)
    /\ ~Supplied(req.tag)
    /\ ~Supplied(req.language)
    /\ ~Supplied(req.limit)

\* The records created so far one of whose text fields holds q.
Holding(q) ==
    {e \in issued : /\ e.kind = req.kind
                    /\ \E f \in TextFields(e.kind) : CISubstring(q, e.doc[f].v)}

Returned(e) == \E i \in 1..Len(resp.docs) : IsIssued(resp.docs[i], e)

C2_FindsAny == OnlyQ => \A e \in Holding(req.q.v) : Returned(e)

C2_FindsLiteral ==
    (OnlyQ /\ Literal(req.q.v) /\ Len(store[req.kind]) <= DefaultLimit)
    => \A e \in Holding(req.q.v) : Returned(e)

Substring(q, s) ==
    \E off \in 0..(Len(s) - Len(q)) : \A j \in 1..Len(q) : s[off + j] = q[j]

C3_Tags == {Null, Str(<<>>), Str(<<"x">>), Str(<<"y">>)}
C3_Queries == {Null, Str(<<>>), Str(<<"a">>), Str(<<"b">>), Str(<<"^", "a">>)}
C3_Languages(kind) ==
    IF kind = "snippet" THEN {Null, Str(<<>>), Str(<<"p", "y">>), Str(<<"P", "y">>)}
    ELSE {Null}

\* The conditions as stated, over the parameters that count as given.
Stated(kind, doc, tag, q, language, given(_)) ==
    /\ given(tag) => tag.v \in Elements(doc["tags"].v)
    /\ given(language) => doc["language"] = language
    /\ given(q) => \E f \in TextFields(kind) : CISubstring(q.v, doc[f].v)

\* C3 (as claimed): the filter of a list endpoint matches a record exactly
\* when every supplied condition holds, q being a substring test; with no
\* parameter supplied the filter is empty.
C3_FilterIsStated ==
    \A kind \in Kinds :
        \A tag \in C3_Tags, q \in C3_Queries, language \in C3_Languages(kind) :
            /\ \A i \in 1..Len(store[kind]) :
                  Matches(store[kind][i], FilterOf(kind, tag, q, language))
                  <=> Stated(kind, store[kind][i], tag, q, language, Supplied)
            /\ (~Supplied(tag) /\ ~Supplied(q) /\ ~Supplied(language))
               => FilterOf(kind, tag, q, language) = EmptyDict

\* C3 (amended): for parameters that are absent or empty (both count as not
\* supplied) or non-empty, with q free of pattern metacharacters, the filter
\* matches a record exactly when every supplied condition holds; with no
\* parameter supplied the filter is empty.
C3_FilterIsStatedForLiterals ==
    \A kind \in Kinds :
        \A tag \in C3_Tags, q \in C3_Queries, language \in C3_Languages(kind) :
            Literal(q.v) =>
            /\ \A i \in 1..Len(store[kind]) :
                  Matches(store[kind][i], FilterOf(kind, tag, q, language))
                  <=> Stated(kind, store[kind][i], tag, q, language, Truthy)
            /\ (~Truthy(tag) /\ ~Truthy(q) /\ ~Truthy(language))
               => FilterOf(kind, tag, q, language) = EmptyDict

C3_Witness ==
    /\ \E i, j \in 1..Len(store["dataset"]) :
          LET filt == FilterOf("dataset", Str(<<"x">>), Str(<<"a">>), Null)
          IN  Matches(store["dataset"][i], filt) /\ ~Matches(store["dataset"][j], filt)
    /\ req.route = "list"
    /\ req.kind = "dataset"
    /\ req.tag = Str(<<"x">>)
    /\ req.q = Str(<<"a">>)
    /\ Len(resp.docs) = 1

\* ------------------------------------------------------------------ C4

\* C4: a list request with a tag returns only records whose tags list holds
\* an element equal to the tag, letter case included.
C4_OnlyTagged ==
    (req.route = "list" /\ resp.status = 200 /\ Truthy(req.tag))
    => \A i \in 1..Len(resp.docs) :
          \E j \in 1..Len(resp.docs[i]["tags"].v) :
              resp.docs[i]["tags"].v[j] = req.tag.v

\* The dataset tagged "x" comes back; the dataset tagged "X", "y" does not.
C4_Witness ==
    /\ req.route = "list"
    /\ req.kind = "dataset"
    /\ req.tag = Str(<<"x">>)
    /\ ~Supplied(req.q)
    /\ ~Supplied(req.limit)
    /\ Len(resp.docs) = 1
    /\ \E i \in 1..Len(store["dataset"]) :
          store["dataset"][i]["tags"] = List(<< <<"X">>, <<"y">> >>)

\* ------------------------------------------------------------------ C5

\* The records of the requested collection that the request's filter matches.
MatchCount ==
    Cardinality({i \in 1..Len(store[req.kind]) :
                    Matches(store[req.kind][i],
                            FilterOf(req.kind, req.tag, req.q, req.language))})

\* C5 (as claimed): a list request returns at most limit records for every
\* supplied integer limit, and min(50, matching records) with none supplied.
C5_AtMostLimit ==
    (req.route = "list" /\ resp.status = 200)
    => /\ Supplied(req.limit) => Len(resp.docs) <= req.limit.v[1]
       /\ ~Supplied(req.limit) => Len(resp.docs) = Min(50, MatchCount)

\* C5 (amended): a list request returns at most limit records for every
\* supplied positive integer limit, and min(50, matching records) with none
\* supplied.
C5_AtMostPositiveLimit ==
    (req.route = "list" /\ resp.status = 200)
    => /\ (Supplied(req.limit) /\ req.limit.v[1] >= 1)
          => Len(resp.docs) <= req.limit.v[1]
       /\ ~Supplied(req.limit) => Len(resp.docs) = Min(50, MatchCount)

\* Sixty datasets are stored and the default limit returns fifty.
C5_Witness ==
    /\ req.route = "list"
    /\ req.kind = "dataset"
    /\ ~Supplied(req.limit)
    /\ ~Supplied(req.tag)
    /\ ~Supplied(req.q)
    /\ Len(store["dataset"]) = 60
    /\ Len(resp.docs) = 50

\* ------------------------------------------------------------------ C6

\* C6: every record a list request returns carries, as a string, the
\* identifier the POST that created it returned, no returned value is of the
\* store's identifier type, and an unfiltered list returns every record
\* created under the identifier its POST returned.
C6_IdRoundTrip ==
    (req.route = "list" /\ resp.status = 200)
    => /\ \A i \in 1..Len(resp.docs) :
             /\ \A f \in DOMAIN resp.docs[i] : resp.docs[i][f].t # "oid"
             /\ \E e \in issued : e.kind = req.kind /\ IsIssued(resp.docs[i], e)
       /\ (/\ ~Supplied(req.tag) /\ ~Supplied(req.q) /\ ~Supplied(req.language)
           /\ ~Supplied(req.limit))
          => \A e \in issued : e.kind = req.kind => Returned(e)
       /\ \A e1, e2 \in issued : e1.id = e2.id => e1 = e2

C6_Witness ==
    /\ req.route = "list"
    /\ resp.status = 200
    /\ Len(resp.docs) = 2
    /\ resp.docs[1]["_id"] # resp.docs[2]["_id"]
    /\ Len(resp.docs[1]["_id"].v) = 24

\* ------------------------------------------------------------------ C7

\* s is d with every ObjectId replaced by its string form.
Serialized(s, d) ==
    /\ DOMAIN s = DOMAIN d
    /\ \A k \in DOMAIN d :
          IF d[k].t = "oid"
          THEN s[k].t = "str" /\ Len(s[k].v) = 2 * Len(d[k].v) /\ HexDecode(s[k].v) = d[k].v
          ELSE s[k] = d[k]

ValidCreate == req.route = "create" /\ Validates(Schema(req.kind), req.payload)

\* The record of this request is stored under the identifier returned.
Inserted ==
    \E i \in 1..Len(store[req.kind]) :
        /\ store[req.kind][i]["_id"].v = HexDecode(resp.id)
        /\ \A f \in DOMAIN Schema(req.kind) :
              store[req.kind][i][f] = ModelDump(Schema(req.kind), req.payload)[f]

\* C8: a valid POST is answered 201 with the identifier of the record it
\* stored, or, when the insert raised, 400 with the error's text as detail.
C8_InsertFailureIs400 ==
    ValidCreate =>
       /\ \/ resp.status = 201 /\ Len(resp.id) = 24 /\ Inserted
          \/ resp.status = 400 /\ resp.detail \in {StoreUnavailable, WriteError}
       /\ (db = "none" \/ req.wfault) => resp.status = 400
       /\ db = "none" => resp.detail = StoreUnavailable

C8_Witness ==
    /\ ValidCreate
    /\ req.wfault
    /\ resp.status = 400
    /\ resp.detail = WriteError
    /\ TotalDocs > 0

\* ------------------------------------------------------------------ C9

IssuedFor(kind) == {e \in issued : e.kind = kind}

\* C9: each collection holds exactly the records the 201 responses of its
\* own kind created, each as it was inserted.
C9_ExactlyTheInserted ==
    \A kind \in Kinds :
        /\ Len(store[kind]) = Cardinality(IssuedFor(kind))
        /\ \A i \in 1..Len(store[kind]) :
              \E e \in IssuedFor(kind) :
                  /\ store[kind][i]["_id"].v = HexDecode(e.id)
                  /\ DOMAIN store[kind][i] = (DOMAIN e.doc) \cup {"_id"}
                  /\ \A f \in DOMAIN e.doc : store[kind][i][f] = e.doc[f]

\* A tool was created, and then a valid POST of a dataset failed.
C9_Witness ==
    /\ store["tool"] # <<>>
    /\ store["snippet"] = <<>>
    /\ store["dataset"] = <<>>
    /\ ValidCreate
    /\ req.kind = "dataset"
    /\ resp.status = 400

\* ------------------------------------------------------------------ C10

Degraded(database) ==
    database.status \in {"Available but not initialized", "Connected but Error"}

\* C10: GET /test is always answered 200; with the store not initialised or
\* failing, the database field reports the degraded status, and the error
\* text in it is the first 50 characters of the error's text.
C10_DiagnosticNeverFails ==
    [][(Answered /\ req'.route = "test")
       => /\ resp'.status = 200
          /\ db # "up" <=> Degraded(resp'.database)
          /\ db = "none" => resp'.database.text = <<>>
          /\ db = "down"
             => /\ Len(resp'.database.text) = Min(50, Len(StoreUnavailable))
                /\ \A i \in 1..Len(resp'.database.text) :
                      resp'.database.text[i] = StoreUnavailable[i]]_vars

C10_Witness ==
    /\ req.route = "test"
    /\ resp.status = 200
    /\ resp.database.status = "Connected but Error"
    /\ Len(resp.database.text) = 50
    /\ Len(StoreUnavailable) > 50

====
